---- MODULE Spec2Model ----
(***************************************************************************)
(* Model of the ec2_elasticsearch Ansible module                           *)
(* (src/library/ec2_elasticsearch.py, main()): one invocation reads the    *)
(* domain with describe_elasticsearch_domain, compares it with the desired *)
(* configuration, and creates or updates the domain.                       *)
(*                                                                         *)
(* Python values are modelled as follows.  A dict is a function whose      *)
(* DOMAIN is the dict's key set, so that a missing key (KeyError) and the  *)
(* != comparison of dicts with different keys are both visible.  The       *)
(* comma separated option strings vpc_subnets / vpc_security_groups are    *)
(* sequences of one-character strings, so that split(',') and strip() are  *)
(* computed.  None and '' of these two options are both the empty          *)
(* sequence (both are falsy, and the code only tests their truth value).   *)
(* A JSON text is the ordered list of (key, value) pairs of each           *)
(* statement; json.loads turns it into a dict, json.dumps writes the keys  *)
(* in a fixed order.                                                       *)
(***************************************************************************)
EXTENDS Integers, Sequences, FiniteSets, TLC

VARIABLES
    domain,        \* provider: the stored domain (NoDomain when there is none)
    accepted,      \* provider: the create or update request it accepted last
    deletions,     \* how often another actor has deleted the domain
    pc,            \* per invocation process: position in main()
    params,        \* module.params of the invocation
    run,           \* number of the current invocation of this process
    policy_dict,   \* module.params['access_policies'], patched in place
    pdoc,          \* the serialized policy
    changed,       \* the local variable changed
    response,      \* the local variable response
    exc,           \* e.response['Error'] of the ClientError being handled
    keyword_args,  \* the request being built for update / create
    calls,         \* client calls issued by the current invocation
    out,           \* what the invocation reported (exit_json / fail_json / traceback)
    log            \* outcomes of the earlier invocations of this process

vars == <<domain, accepted, deletions, pc, params, run, policy_dict, pdoc, changed, response, exc,
          keyword_args, calls, out, log>>

Procs == {1, 2}

\* Bounds of the model.
MaxRuns == 2      \* invocations one process runs one after the other
MaxDev == 2       \* option groups in which a desired spec departs from BaseParams
MaxDeletes == 1   \* deletions of the domain by another actor

-----------------------------------------------------------------------------
(* Python helpers *)

EmptyDict == [k \in {} |-> 0]

\* f restricted to the keys in K
Restrict(f, K) == [k \in (DOMAIN f) \cap K |-> f[k]]

\* truth value of a str-or-None option
Truthy(s) == s # <<>>

RECURSIVE SplitAcc(_, _, _)
SplitAcc(s, cur, acc) ==
    IF s = <<>> THEN Append(acc, cur)
    ELSE IF Head(s) = "," THEN SplitAcc(Tail(s), <<>>, Append(acc, cur))
    ELSE SplitAcc(Tail(s), Append(cur, Head(s)), acc)

\* s.split(',')
Split(s) == SplitAcc(s, <<>>, <<>>)

RECURSIVE LStrip(_)
LStrip(s) == IF s # <<>> /\ Head(s) = " " THEN LStrip(Tail(s)) ELSE s

RECURSIVE RStrip(_)
RStrip(s) ==
    IF s # <<>> /\ s[Len(s)] = " " THEN RStrip(SubSeq(s, 1, Len(s) - 1)) ELSE s

\* x.strip()
Strip(s) == RStrip(LStrip(s))

\* [x.strip() for x in s.split(',')]
SplitStrip(s) == [i \in 1..Len(Split(s)) |-> Strip(Split(s)[i])]

-----------------------------------------------------------------------------
(* JSON *)

\* a policy value json.dumps cannot serialize
NotJson == "<object>"

\* the order in which a statement's keys are written
JsonKeyOrder == <<"Effect", "Resource">>

JsonSerializable(policy) ==
    \A i \in 1..Len(policy.Statement) :
        \A k \in DOMAIN policy.Statement[i] : policy.Statement[i][k] # NotJson

RECURSIVE DumpKeys(_, _)
DumpKeys(d, keys) ==
    IF keys = <<>> THEN <<>>
    ELSE IF Head(keys) \in DOMAIN d
         THEN << <<Head(keys), d[Head(keys)]>> >> \o DumpKeys(d, Tail(keys))
         ELSE DumpKeys(d, Tail(keys))

\* json.dumps of a policy: each statement becomes its list of (key, value) pairs
JsonDumps(policy) ==
    [Statement |-> [i \in 1..Len(policy.Statement) |->
                        DumpKeys(policy.Statement[i], JsonKeyOrder)]]

\* the dict a list of (key, value) pairs parses to (a repeated key: last one wins)
LoadPairs(pairs) ==
    [k \in {pairs[j][1] : j \in 1..Len(pairs)} |->
        LET js == {j \in 1..Len(pairs) : pairs[j][1] = k}
            last == CHOOSE j \in js : \A j2 \in js : j2 <= j
        IN  pairs[last][2]]

\* json.loads of a policy text
JsonLoads(text) ==
    [Statement |-> [i \in 1..Len(text.Statement) |-> LoadPairs(text.Statement[i])]]

-----------------------------------------------------------------------------
(* The configuration dicts main() builds from module.params *)

\* the result of looking up a key that is not in a dict
KeyError == "KeyError"

\* a slip that would copy the dedicated-master options whatever the flag says
ClusterConfigWithStray(P) ==
    [DedicatedMasterType  |-> P.dedicated_master_instance_type,
     DedicatedMasterCount |-> P.dedicated_master_instance_count]
    @@ (IF P.zone_awareness
        THEN [ZoneAwarenessConfig |->
                 [AvailabilityZoneCount |-> P.zone_awareness_zonecount]]
        ELSE EmptyDict)
    @@ [InstanceType           |-> P.instance_type,
        InstanceCount          |-> P.instance_count,
        DedicatedMasterEnabled |-> P.dedicated_master,
        ZoneAwarenessEnabled   |-> P.zone_awareness]

\* cluster_config
ClusterConfig(P) ==
    (IF P.dedicated_master
        THEN [DedicatedMasterType  |-> P.dedicated_master_instance_type,
              DedicatedMasterCount |-> P.dedicated_master_instance_count]
        ELSE EmptyDict)
    @@ (IF P.zone_awareness
        THEN [ZoneAwarenessConfig |->
                 [AvailabilityZoneCount |-> P.zone_awareness_zonecount]]
        ELSE EmptyDict)
    @@ [InstanceType           |-> P.instance_type,
        InstanceCount          |-> P.instance_count,
        DedicatedMasterEnabled |-> P.dedicated_master,
        ZoneAwarenessEnabled   |-> P.zone_awareness]

\* ebs_options
EbsOptions(P) ==
    (IF P.ebs THEN [VolumeType |-> P.volume_type, VolumeSize |-> P.volume_size]
              ELSE EmptyDict)
    @@ [EBSEnabled |-> P.ebs]

\* encryption_at_rest_options
EncryptionAtRestOptions(P) ==
    LET encryption_at_rest_enabled == (P.encryption_at_rest_enabled = "True")
    IN  (IF encryption_at_rest_enabled
            THEN [KmsKeyId |-> P.encryption_at_rest_kms_key_id]
            ELSE EmptyDict)
        @@ [Enabled |-> encryption_at_rest_enabled]

\* vpc_options: a key is set only when its option is truthy
VpcOptions(P) ==
    (IF Truthy(P.vpc_subnets)
        THEN [SubnetIds |-> SplitStrip(P.vpc_subnets)] ELSE EmptyDict)
    @@ (IF Truthy(P.vpc_security_groups)
        THEN [SecurityGroupIds |-> SplitStrip(P.vpc_security_groups)] ELSE EmptyDict)

\* snapshot_options
SnapshotOptions(P) == [AutomatedSnapshotStartHour |-> P.snapshot_hour]

\* vpc_options['SubnetIds'] or vpc_options['SecurityGroupIds'], as a condition:
\* "True", "False", or KeyError when a key that is evaluated is missing
VpcOptionsGiven(v) ==
    IF "SubnetIds" \notin DOMAIN v THEN KeyError
    ELSE IF v.SubnetIds # <<>> THEN "True"
    ELSE IF "SecurityGroupIds" \notin DOMAIN v THEN KeyError
    ELSE IF v.SecurityGroupIds # <<>> THEN "True" ELSE "False"

\* the statements lacking Resource get '%s/*' % status['ARN']
PatchPolicy(policy, arn) ==
    [Statement |-> [i \in 1..Len(policy.Statement) |->
        IF "Resource" \in DOMAIN policy.Statement[i]
           THEN policy.Statement[i]
           ELSE policy.Statement[i] @@ [Resource |-> arn \o "/*"]]]

\* some statement lacks Resource (pdoc is serialized again)
LacksResource(policy) ==
    \E i \in 1..Len(policy.Statement) : "Resource" \notin DOMAIN policy.Statement[i]

\* a slip that would also count a supplied network config as a difference when
\* the observed domain has none
NetworkDiffBothWays(status, v) ==
    IF "VPCOptions" \notin DOMAIN status
       THEN [raised |-> FALSE, diff |-> v # EmptyDict]
    ELSE IF "SubnetIds" \notin DOMAIN status.VPCOptions \/ "SubnetIds" \notin DOMAIN v
       THEN [raised |-> TRUE, diff |-> FALSE]
    ELSE IF    "SecurityGroupIds" \notin DOMAIN status.VPCOptions
            \/ "SecurityGroupIds" \notin DOMAIN v
       THEN [raised |-> TRUE, diff |-> status.VPCOptions.SubnetIds # v.SubnetIds]
    ELSE [raised |-> FALSE,
          diff   |->    status.VPCOptions.SubnetIds # v.SubnetIds
                     \/ status.VPCOptions.SecurityGroupIds # v.SecurityGroupIds]

\* the VPCOptions block of the comparison (lines 259-263): whether a lookup
\* raised KeyError, and whether changed was set before it did
NetworkDiff(status, v) ==
    IF "VPCOptions" \notin DOMAIN status
       THEN [raised |-> FALSE, diff |-> FALSE]
    ELSE IF "SubnetIds" \notin DOMAIN status.VPCOptions \/ "SubnetIds" \notin DOMAIN v
       THEN [raised |-> TRUE, diff |-> FALSE]
    ELSE IF    "SecurityGroupIds" \notin DOMAIN status.VPCOptions
            \/ "SecurityGroupIds" \notin DOMAIN v
       THEN [raised |-> TRUE, diff |-> status.VPCOptions.SubnetIds # v.SubnetIds]
    ELSE [raised |-> FALSE,
          diff   |->    status.VPCOptions.SubnetIds # v.SubnetIds
                     \/ status.VPCOptions.SecurityGroupIds # v.SecurityGroupIds]

\* changed after the two comparisons that precede the VPCOptions block
EarlyDiff(status, P) ==
    \/ status.ElasticsearchClusterConfig # ClusterConfig(P)
    \/ status.EBSOptions # EbsOptions(P)

\* changed after the two comparisons that follow the VPCOptions block
LateDiff(status, P, policy) ==
    \/ status.SnapshotOptions # SnapshotOptions(P)
    \/ JsonLoads(status.AccessPolicies) # policy

\* a slip that would send the encryption options with an update as well
UpdateArgsWithEncryption(P, doc) ==
    [DomainName                 |-> P.name,
     EncryptionAtRestOptions    |-> EncryptionAtRestOptions(P),
     ElasticsearchClusterConfig |-> ClusterConfig(P),
     EBSOptions                 |-> EbsOptions(P),
     SnapshotOptions            |-> SnapshotOptions(P),
     AccessPolicies             |-> doc]

\* keyword_args of update_elasticsearch_domain_config, before VPCOptions is added
UpdateArgs(P, doc) ==
    [DomainName                 |-> P.name,
     ElasticsearchClusterConfig |-> ClusterConfig(P),
     EBSOptions                 |-> EbsOptions(P),
     SnapshotOptions            |-> SnapshotOptions(P),
     AccessPolicies             |-> doc]

\* keyword_args of create_elasticsearch_domain, before VPCOptions is added
CreateArgs(P, doc) ==
    [DomainName                 |-> P.name,
     ElasticsearchVersion       |-> P.elasticsearch_version,
     EncryptionAtRestOptions    |-> EncryptionAtRestOptions(P),
     ElasticsearchClusterConfig |-> ClusterConfig(P),
     EBSOptions                 |-> EbsOptions(P),
     SnapshotOptions            |-> SnapshotOptions(P),
     AccessPolicies             |-> doc]

\* keyword_args['VPCOptions'] = vpc_options, when the condition is true
WithVpcOptions(args, v) ==
    IF VpcOptionsGiven(v) = "True" THEN [VPCOptions |-> v] @@ args ELSE args

-----------------------------------------------------------------------------
(* The provider behind the boto3 client *)

NoDomain == EmptyDict

NotFound == "ResourceNotFoundException"

\* error codes a call may fail with whatever the provider holds
FaultCodes == {"ValidationException", "InternalException"}

ArnOf(name) == "arn:aws:es:eu-west-1:123456789012:domain/" \o name

\* e.response['Error']
ErrorOf(code) == [Code |-> code, Message |-> "message of " \o code]

Failure(code, injected) == [ok |-> FALSE, Error |-> ErrorOf(code), fault |-> injected]

Faults == {Failure(c, TRUE) : c \in FaultCodes}

\* what the provider holds after accepting a create request
AcceptCreate(req) == req @@ [ARN |-> ArnOf(req.DomainName)]

\* a provider that would keep what it holds where an update request disagrees
AcceptUpdateKeepStored(d, req) == d @@ req

\* what the provider holds after accepting an update request
AcceptUpdate(d, req) == req @@ d

\* the possible outcomes of describe_elasticsearch_domain with request id rid
DescribeOutcomes(d, rid) ==
    (IF d = NoDomain
        THEN {Failure(NotFound, FALSE)}
        ELSE {[ok |-> TRUE, fault |-> FALSE,
               body |-> [ResponseMetadata |-> [RequestId |-> rid], DomainStatus |-> d]]})
    \cup Faults

\* the possible outcomes of update_elasticsearch_domain_config; next is what the
\* provider holds afterwards
UpdateOutcomes(d, req, rid) ==
    (IF d = NoDomain
        THEN {Failure(NotFound, FALSE) @@ [next |-> d]}
        ELSE {[ok |-> TRUE, fault |-> FALSE, next |-> AcceptUpdate(d, req),
               body |-> [ResponseMetadata |-> [RequestId |-> rid],
                         DomainConfig |-> Restrict(req, DOMAIN req \ {"DomainName"})]]})
    \cup {f @@ [next |-> d] : f \in Faults}

\* the possible outcomes of create_elasticsearch_domain
CreateOutcomes(d, req, rid) ==
    (IF d = NoDomain
        THEN {[ok |-> TRUE, fault |-> FALSE, next |-> AcceptCreate(req),
               body |-> [ResponseMetadata |-> [RequestId |-> rid],
                         DomainStatus |-> AcceptCreate(req)]]}
        ELSE {Failure("ResourceAlreadyExistsException", FALSE) @@ [next |-> d]})
    \cup {f @@ [next |-> d] : f \in Faults}

-----------------------------------------------------------------------------
(* The desired specs and the provider states an invocation starts from *)

SubnetsOne == <<"s", "1">>
SubnetsTwo == <<"s", "1", ",", " ", "s", "2">>
SubnetsTwoSwapped == <<"s", "2", ",", "s", "1">>
GroupsOne == <<"g", "1">>
DefaultGroup == <<"s", "g", "-", "d", "e", "f">>

BaseCluster ==
    [instance_type |-> "t2.small.elasticsearch", instance_count |-> 1,
     dedicated_master |-> FALSE, dedicated_master_instance_type |-> "None",
     dedicated_master_instance_count |-> 0,
     zone_awareness |-> FALSE, zone_awareness_zonecount |-> 1]
BaseStorage == [ebs |-> TRUE, volume_type |-> "gp2", volume_size |-> 10]
BaseNetwork == [vpc_subnets |-> <<>>, vpc_security_groups |-> <<>>]
BaseSnapshot == [snapshot_hour |-> 3]
BasePolicy == [access_policies |-> [Statement |-> << [Effect |-> "Allow"] >>]]
BaseEncryption ==
    [encryption_at_rest_enabled |-> "False", encryption_at_rest_kms_key_id |-> "None"]
BaseVersion == [elasticsearch_version |-> "2.3"]

\* the alternatives of each option group; the stray dedicated-master values and
\* the volume options under ebs = FALSE are values the code must not send
ClusterGroup ==
    {BaseCluster,
     [BaseCluster EXCEPT !.instance_count = 2],
     [BaseCluster EXCEPT !.dedicated_master_instance_type = "m3.medium.elasticsearch",
                         !.dedicated_master_instance_count = 3],
     [BaseCluster EXCEPT !.dedicated_master = TRUE,
                         !.dedicated_master_instance_type = "m3.medium.elasticsearch",
                         !.dedicated_master_instance_count = 3],
     [BaseCluster EXCEPT !.zone_awareness = TRUE, !.zone_awareness_zonecount = 2]}
StorageGroup == {BaseStorage, [BaseStorage EXCEPT !.ebs = FALSE]}
NetworkGroup ==
    {BaseNetwork,
     [vpc_subnets |-> SubnetsOne, vpc_security_groups |-> <<>>],
     [vpc_subnets |-> <<>>, vpc_security_groups |-> GroupsOne],
     [vpc_subnets |-> SubnetsOne, vpc_security_groups |-> GroupsOne],
     [vpc_subnets |-> SubnetsTwo, vpc_security_groups |-> GroupsOne],
     [vpc_subnets |-> SubnetsTwoSwapped, vpc_security_groups |-> GroupsOne]}
SnapshotGroup == {BaseSnapshot, [snapshot_hour |-> 4]}
PolicyGroup ==
    {BasePolicy,
     [access_policies |-> [Statement |->
         << [Effect |-> "Allow", Resource |-> ArnOf("logs") \o "/*"] >>]],
     [access_policies |-> [Statement |->
         << [Effect |-> "Deny", Resource |-> "arn:aws:es:*:*:domain/other/*"],
            [Effect |-> "Allow"] >>]],
     [access_policies |-> [Statement |-> << [Effect |-> NotJson] >>]]}
EncryptionGroup ==
    {BaseEncryption,
     [encryption_at_rest_enabled |-> "True", encryption_at_rest_kms_key_id |-> "key-1"]}
VersionGroup == {BaseVersion, [elasticsearch_version |-> "5.1"]}

BaseChoice ==
    <<BaseCluster, BaseStorage, BaseNetwork, BaseSnapshot, BasePolicy,
      BaseEncryption, BaseVersion>>

\* module.params for a choice of one alternative per group
ParamsOf(c) ==
    [name |-> "logs"] @@ c[1] @@ c[2] @@ c[3] @@ c[4] @@ c[5] @@ c[6] @@ c[7]

BaseParams == ParamsOf(BaseChoice)

\* the desired specs: at most MaxDev groups differ from the base spec
DesiredSpecs ==
    {ParamsOf(c) :
        c \in {t \in {<<a, b, n, h, y, e, v>> :
                        a \in ClusterGroup, b \in StorageGroup, n \in NetworkGroup,
                        h \in SnapshotGroup, y \in PolicyGroup,
                        e \in EncryptionGroup, v \in VersionGroup} :
                 Cardinality({i \in 1..7 : t[i] # BaseChoice[i]}) <= MaxDev}}

\* the specs one option group away from P (P itself among them)
Drift(P) ==
    {g @@ P : g \in ClusterGroup \cup StorageGroup \cup NetworkGroup
                    \cup SnapshotGroup
                    \cup {y \in PolicyGroup : JsonSerializable(y.access_policies)}
                    \cup EncryptionGroup \cup VersionGroup}

Reverse(s) == [i \in 1..Len(s) |-> s[Len(s) + 1 - i]]

\* A domain as the provider reports it when it holds the configuration of Q.
\* "accepted": the configuration exactly as a create request carries it.
\* "aws": as the service reports it: Resource filled in, the policy text in
\* another key order, and VPCOptions (only with subnets) holding both lists.
Observed(Q, shape) ==
    LET v    == VpcOptions(Q)
        arn  == ArnOf(Q.name)
        text == JsonDumps(PatchPolicy(Q.access_policies, arn))
        net  == IF shape = "accepted" THEN v
                ELSE IF "SubnetIds" \notin DOMAIN v THEN EmptyDict
                ELSE v @@ [SecurityGroupIds |-> <<DefaultGroup>>]
        doc  == IF shape = "accepted" THEN JsonDumps(Q.access_policies)
                ELSE [Statement |-> [i \in 1..Len(text.Statement) |->
                                        Reverse(text.Statement[i])]]
    IN  (IF net = EmptyDict THEN EmptyDict ELSE [VPCOptions |-> net])
        @@ AcceptCreate(CreateArgs(Q, doc))

InitialDomains(P) ==
    {NoDomain} \cup {Observed(Q, shape) : Q \in Drift(P), shape \in {"accepted", "aws"}}

-----------------------------------------------------------------------------
(* One invocation of main() *)

Unset == EmptyDict

\* a slip that would report changed=True on every successful exit
ExitJsonAlwaysChanged(c, r) == [kind |-> "exit_json", changed |-> TRUE, response |-> r]

\* line 310
ExitJson(c, r) == [kind |-> "exit_json", changed |-> c, response |-> r]
FailJson(m) == [kind |-> "fail_json", msg |-> m]
Traceback(e) == [kind |-> "exception", exception |-> e]
Running == [kind |-> "running"]

KeyErrorRaised == Traceback([type |-> KeyError])
ClientErrorRaised(err) == Traceback([type |-> "ClientError", Error |-> err])

\* the record of a client call in calls
Call(op, req, r) ==
    [op |-> op, req |-> req, res |-> Restrict(r, {"ok", "fault", "body", "Error"})]

RequestId(p) == <<p, run[p], Len(calls[p]) + 1>>

Init ==
    \E P \in DesiredSpecs :
        /\ domain \in InitialDomains(P)
        /\ accepted = Unset
        /\ deletions = 0
        /\ params = [p \in Procs |-> P]
        /\ pc = [p \in Procs |-> IF p = 1 THEN "build" ELSE "idle"]
        /\ run = [p \in Procs |-> IF p = 1 THEN 1 ELSE 0]
        /\ policy_dict = [p \in Procs |-> P.access_policies]
        /\ pdoc = [p \in Procs |-> Unset]
        /\ changed = [p \in Procs |-> FALSE]
        /\ response = [p \in Procs |-> Unset]
        /\ exc = [p \in Procs |-> Unset]
        /\ keyword_args = [p \in Procs |-> Unset]
        /\ calls = [p \in Procs |-> <<>>]
        /\ out = [p \in Procs |-> Running]
        /\ log = [p \in Procs |-> <<>>]

\* a slip that would go on to the describe call without looking at the outcome
\* of the serialization
BuildRequestsUnchecked(p) ==
    /\ pc[p] = "build"
    /\ changed' = [changed EXCEPT ![p] = FALSE]
    /\ pdoc' = [pdoc EXCEPT ![p] = JsonDumps(params[p].access_policies)]
    /\ pc' = [pc EXCEPT ![p] = "describe"]
    /\ UNCHANGED <<domain, accepted, deletions, params, run, policy_dict, response, exc,
                   keyword_args, calls, out, log>>

\* lines 183-239: the configuration dicts are functions of params; changed is
\* cleared and the policy is serialized
BuildRequests(p) ==
    /\ pc[p] = "build"
    /\ changed' = [changed EXCEPT ![p] = FALSE]
    /\ IF JsonSerializable(params[p].access_policies)
          THEN /\ pdoc' = [pdoc EXCEPT ![p] = JsonDumps(params[p].access_policies)]
               /\ pc' = [pc EXCEPT ![p] = "describe"]
               /\ out' = out
          ELSE /\ pdoc' = pdoc
               /\ pc' = [pc EXCEPT ![p] = "done"]
               /\ out' = [out EXCEPT ![p] =
                     FailJson(<<"Failed to convert the policy into valid JSON:",
                                NotJson \o " is not JSON serializable">>)]
    /\ UNCHANGED <<domain, accepted, deletions, params, run, policy_dict, response, exc, keyword_args,
                   calls, log>>

\* line 242: the first describe
DescribeDomain(p) ==
    /\ pc[p] = "describe"
    /\ \E r \in DescribeOutcomes(domain, RequestId(p)) :
          /\ calls' = [calls EXCEPT ![p] =
                Append(@, Call("describe", [DomainName |-> params[p].name], r))]
          /\ IF r.ok
                THEN /\ response' = [response EXCEPT ![p] = r.body]
                     /\ pc' = [pc EXCEPT ![p] = "compare"]
                     /\ exc' = exc
                ELSE /\ exc' = [exc EXCEPT ![p] = r.Error]
                     /\ pc' = [pc EXCEPT ![p] = "except"]
                     /\ response' = response
    /\ UNCHANGED <<domain, accepted, deletions, params, run, policy_dict, pdoc, changed, keyword_args,
                   out, log>>

\* lines 243-282: patch the policy, compare, build the update request
CompareWithStatus(p) ==
    LET status  == response[p].DomainStatus
        P       == params[p]
        v       == VpcOptions(P)
        patched == PatchPolicy(policy_dict[p], status.ARN)
        doc     == IF LacksResource(policy_dict[p]) THEN JsonDumps(patched) ELSE pdoc[p]
        early   == EarlyDiff(status, P)
        net     == NetworkDiff(status, v)
        diff    == early \/ net.diff \/ LateDiff(status, P, patched)
    IN  /\ pc[p] = "compare"
        /\ policy_dict' = [policy_dict EXCEPT ![p] = patched]
        /\ pdoc' = [pdoc EXCEPT ![p] = doc]
        /\ IF net.raised
              THEN /\ changed' = [changed EXCEPT ![p] = early \/ net.diff]
                   /\ out' = [out EXCEPT ![p] = KeyErrorRaised]
                   /\ pc' = [pc EXCEPT ![p] = "done"]
                   /\ keyword_args' = keyword_args
              ELSE /\ changed' = [changed EXCEPT ![p] = diff]
                   /\ IF ~diff
                         THEN /\ pc' = [pc EXCEPT ![p] = "final"]
                              /\ UNCHANGED <<out, keyword_args>>
                         ELSE IF VpcOptionsGiven(v) = KeyError
                         THEN /\ out' = [out EXCEPT ![p] = KeyErrorRaised]
                              /\ pc' = [pc EXCEPT ![p] = "done"]
                              /\ keyword_args' = [keyword_args EXCEPT ![p] =
                                                     UpdateArgs(P, doc)]
                         ELSE /\ keyword_args' = [keyword_args EXCEPT ![p] =
                                    WithVpcOptions(UpdateArgs(P, doc), v)]
                              /\ pc' = [pc EXCEPT ![p] = "update"]
                              /\ out' = out
        /\ UNCHANGED <<domain, accepted, deletions, params, run, response, exc, calls, log>>

\* line 284: the update call
UpdateDomainConfig(p) ==
    /\ pc[p] = "update"
    /\ \E r \in UpdateOutcomes(domain, keyword_args[p], RequestId(p)) :
          /\ domain' = r.next
          /\ accepted' = IF r.ok THEN [op |-> "update", req |-> keyword_args[p]] ELSE accepted
          /\ calls' = [calls EXCEPT ![p] = Append(@, Call("update", keyword_args[p], r))]
          /\ IF r.ok
                THEN /\ response' = [response EXCEPT ![p] = r.body]
                     /\ pc' = [pc EXCEPT ![p] = "final"]
                     /\ exc' = exc
                ELSE /\ exc' = [exc EXCEPT ![p] = r.Error]
                     /\ pc' = [pc EXCEPT ![p] = "except"]
                     /\ response' = response
    /\ UNCHANGED <<deletions, params, run, policy_dict, pdoc, changed, keyword_args, out, log>>

\* a slip that would pass the local changed (True in the handler) to fail_json
ErrorExitWithChanged(err, chg) ==
    FailJson(<<"Error:", err.Code, err.Message>>) @@ [changed |-> chg]

\* line 306: fail_json(msg='Error: %s %s' % (Code, Message)); changed is not passed
ErrorExit(err, chg) == FailJson(<<"Error:", err.Code, err.Message>>)

\* lines 286-306: the handler of a ClientError raised by the first describe or
\* by the update
HandleClientError(p) ==
    LET P == params[p]
        v == VpcOptions(P)
    IN  /\ pc[p] = "except"
        /\ changed' = [changed EXCEPT ![p] = TRUE]
        /\ IF exc[p].Code # NotFound
              THEN /\ out' = [out EXCEPT ![p] = ErrorExit(exc[p], TRUE)]
                   /\ pc' = [pc EXCEPT ![p] = "done"]
                   /\ keyword_args' = keyword_args
              ELSE IF VpcOptionsGiven(v) = KeyError
              THEN /\ out' = [out EXCEPT ![p] = KeyErrorRaised]
                   /\ pc' = [pc EXCEPT ![p] = "done"]
                   /\ keyword_args' = [keyword_args EXCEPT ![p] = CreateArgs(P, pdoc[p])]
              ELSE /\ keyword_args' = [keyword_args EXCEPT ![p] =
                         WithVpcOptions(CreateArgs(P, pdoc[p]), v)]
                   /\ pc' = [pc EXCEPT ![p] = "create"]
                   /\ out' = out
        /\ UNCHANGED <<domain, accepted, deletions, params, run, policy_dict, pdoc, response, exc, calls, log>>

\* line 303: the create call, inside the handler: a ClientError is not caught
CreateDomain(p) ==
    /\ pc[p] = "create"
    /\ \E r \in CreateOutcomes(domain, keyword_args[p], RequestId(p)) :
          /\ domain' = r.next
          /\ accepted' = IF r.ok THEN [op |-> "create", req |-> keyword_args[p]] ELSE accepted
          /\ calls' = [calls EXCEPT ![p] = Append(@, Call("create", keyword_args[p], r))]
          /\ IF r.ok
                THEN /\ response' = [response EXCEPT ![p] = r.body]
                     /\ pc' = [pc EXCEPT ![p] = "final"]
                     /\ out' = out
                ELSE /\ out' = [out EXCEPT ![p] = ClientErrorRaised(r.Error)]
                     /\ pc' = [pc EXCEPT ![p] = "done"]
                     /\ response' = response
    /\ UNCHANGED <<deletions, params, run, policy_dict, pdoc, changed, exc, keyword_args, log>>

\* a slip that would report the response main() already holds, without the
\* final describe
FinalDescribeSkipped(p) ==
    /\ pc[p] = "final"
    /\ pc' = [pc EXCEPT ![p] = "done"]
    /\ out' = [out EXCEPT ![p] = ExitJson(changed[p], response[p])]
    /\ UNCHANGED <<domain, accepted, deletions, params, run, policy_dict, pdoc, changed, response, exc,
                   keyword_args, calls, log>>

\* lines 308-310: the final describe and exit_json
FinalDescribe(p) ==
    /\ pc[p] = "final"
    /\ \E r \in DescribeOutcomes(domain, RequestId(p)) :
          /\ calls' = [calls EXCEPT ![p] =
                Append(@, Call("describe", [DomainName |-> params[p].name], r))]
          /\ pc' = [pc EXCEPT ![p] = "done"]
          /\ IF r.ok
                THEN /\ response' = [response EXCEPT ![p] = r.body]
                     /\ out' = [out EXCEPT ![p] = ExitJson(changed[p], r.body)]
                ELSE /\ out' = [out EXCEPT ![p] = ClientErrorRaised(r.Error)]
                     /\ response' = response
    /\ UNCHANGED <<domain, accepted, deletions, params, run, policy_dict, pdoc, changed, exc,
                   keyword_args, log>>

\* the module is run again with the same options after a successful run
Reinvoke(p) ==
    /\ pc[p] = "done"
    /\ out[p].kind = "exit_json"
    /\ run[p] < MaxRuns
    /\ log' = [log EXCEPT ![p] = Append(@, [out |-> out[p], calls |-> calls[p]])]
    /\ run' = [run EXCEPT ![p] = @ + 1]
    /\ pc' = [pc EXCEPT ![p] = "build"]
    /\ policy_dict' = [policy_dict EXCEPT ![p] = params[p].access_policies]
    /\ pdoc' = [pdoc EXCEPT ![p] = Unset]
    /\ changed' = [changed EXCEPT ![p] = FALSE]
    /\ response' = [response EXCEPT ![p] = Unset]
    /\ exc' = [exc EXCEPT ![p] = Unset]
    /\ keyword_args' = [keyword_args EXCEPT ![p] = Unset]
    /\ calls' = [calls EXCEPT ![p] = <<>>]
    /\ out' = [out EXCEPT ![p] = Running]
    /\ UNCHANGED <<domain, accepted, deletions, params>>

\* another actor deletes the domain while an invocation is under way
DomainDeleted ==
    /\ domain # NoDomain
    /\ deletions < MaxDeletes
    /\ \E p \in Procs : pc[p] \notin {"idle", "done"}
    /\ domain' = NoDomain
    /\ deletions' = deletions + 1
    /\ UNCHANGED <<accepted, pc, params, run, policy_dict, pdoc, changed, response, exc,
                   keyword_args, calls, out, log>>

Next ==
    \/ DomainDeleted
    \/ \E p \in Procs :
        \/ BuildRequests(p)
        \/ DescribeDomain(p)
        \/ CompareWithStatus(p)
        \/ UpdateDomainConfig(p)
        \/ HandleClientError(p)
        \/ CreateDomain(p)
        \/ FinalDescribe(p)
        \/ Reinvoke(p)

Spec == Init /\ [][Next]_vars

-----------------------------------------------------------------------------
(* Two invocations of main() at once against the same domain name: no lock   *)
(* is taken anywhere in main(), so their client calls interleave freely; the *)
(* provider applies each call atomically.                                    *)

NetworkBoth == [vpc_subnets |-> SubnetsOne, vpc_security_groups |-> GroupsOne]

\* the specs of the concurrent invocations
ConcSpecs ==
    {BaseParams,
     NetworkBoth @@ BaseParams,
     NetworkBoth @@ [BaseParams EXCEPT !.instance_count = 2],
     NetworkBoth @@ [BaseParams EXCEPT !.snapshot_hour = 4],
     NetworkBoth @@ [BaseParams EXCEPT !.elasticsearch_version = "5.1"]}

ConcDomains ==
    {NoDomain} \cup {Observed(Q, shape) : Q \in ConcSpecs, shape \in {"accepted", "aws"}}

InitConc ==
    \E P1 \in ConcSpecs, P2 \in ConcSpecs :
        /\ domain \in ConcDomains
        /\ accepted = Unset
        /\ deletions = 0
        /\ params = [p \in Procs |-> IF p = 1 THEN P1 ELSE P2]
        /\ pc = [p \in Procs |-> "build"]
        /\ run = [p \in Procs |-> 1]
        /\ policy_dict = [p \in Procs |-> params[p].access_policies]
        /\ pdoc = [p \in Procs |-> Unset]
        /\ changed = [p \in Procs |-> FALSE]
        /\ response = [p \in Procs |-> Unset]
        /\ exc = [p \in Procs |-> Unset]
        /\ keyword_args = [p \in Procs |-> Unset]
        /\ calls = [p \in Procs |-> <<>>]
        /\ out = [p \in Procs |-> Running]
        /\ log = [p \in Procs |-> <<>>]

NextConc ==
    \E p \in Procs :
        \/ BuildRequests(p)
        \/ DescribeDomain(p)
        \/ CompareWithStatus(p)
        \/ UpdateDomainConfig(p)
        \/ HandleClientError(p)
        \/ CreateDomain(p)
        \/ FinalDescribe(p)

SpecConc == InitConc /\ [][NextConc]_vars

-----------------------------------------------------------------------------
(* Vocabulary of the properties *)

\* the positions in the call trace of process p of the calls named op
Ops(p, op) == {i \in 1..Len(calls[p]) : calls[p][i].op = op}

Mutating(p) == Ops(p, "create") \cup Ops(p, "update")

Ended(p) == pc[p] = "done"

Succeeded(p) == Ended(p) /\ out[p].kind = "exit_json"

\* the changed value the caller sees: a result without the key counts as false
ReportedChanged(o) == IF "changed" \in DOMAIN o THEN o.changed ELSE FALSE

\* nobody else has changed the provider, and every answer it gave in this
\* invocation is the one its state gives
Faithful(p) == deletions = 0 /\ \A i \in 1..Len(calls[p]) : ~calls[p][i].res.fault

\* every call after the first succeeded
RestSucceeded(p) == \A i \in 2..Len(calls[p]) : calls[p][i].res.ok

\* the first describe answered that there is no such domain
NotFoundPath(p) ==
    /\ Len(calls[p]) >= 1
    /\ ~calls[p][1].res.ok
    /\ calls[p][1].res.Error.Code = NotFound

\* the first describe answered with the domain
FoundPath(p) == Len(calls[p]) >= 1 /\ calls[p][1].res.ok

\* the first describe failed with another error
DescribeFailed(p) ==
    /\ Len(calls[p]) >= 1
    /\ ~calls[p][1].res.ok
    /\ calls[p][1].res.Error.Code # NotFound

\* the DomainStatus the first describe returned
ObservedStatus(p) == calls[p][1].res.body.DomainStatus

\* the desired id lists, empty when the option is not supplied
DesiredSubnets(P) == IF Truthy(P.vpc_subnets) THEN SplitStrip(P.vpc_subnets) ELSE <<>>
DesiredGroups(P) ==
    IF Truthy(P.vpc_security_groups) THEN SplitStrip(P.vpc_security_groups) ELSE <<>>
DesiredNetwork(P) ==
    (IF DesiredSubnets(P) # <<>> THEN [SubnetIds |-> DesiredSubnets(P)] ELSE EmptyDict)
    @@ (IF DesiredGroups(P) # <<>> THEN [SecurityGroupIds |-> DesiredGroups(P)]
                                   ELSE EmptyDict)

\* an observed id list, empty when the observed network config has no such key
ObservedIds(status, key) ==
    IF key \in DOMAIN status.VPCOptions THEN status.VPCOptions[key] ELSE <<>>

\* the desired policy as compared on the found path
PatchedDesired(p) == PatchPolicy(params[p].access_policies, ObservedStatus(p).ARN)

\* a compared field other than the network config differs
FieldDiff(p) ==
    \/ ObservedStatus(p).ElasticsearchClusterConfig # ClusterConfig(params[p])
    \/ ObservedStatus(p).EBSOptions # EbsOptions(params[p])
    \/ ObservedStatus(p).SnapshotOptions # SnapshotOptions(params[p])
    \/ JsonLoads(ObservedStatus(p).AccessPolicies) # PatchedDesired(p)

\* the observed network config is structurally the desired one
SameNetwork(p) ==
    IF "VPCOptions" \in DOMAIN ObservedStatus(p)
       THEN ObservedStatus(p).VPCOptions = DesiredNetwork(params[p])
       ELSE DesiredNetwork(params[p]) = EmptyDict

\* the request carries the network config exactly when one is supplied
NetworkAsSupplied(req, P) ==
    IF DesiredNetwork(P) = EmptyDict
       THEN "VPCOptions" \notin DOMAIN req
       ELSE "VPCOptions" \in DOMAIN req /\ req.VPCOptions = DesiredNetwork(P)

-----------------------------------------------------------------------------
(* Properties *)

\* C1: idempotence. When a successful invocation is followed by a second one
\* with the same spec, against a provider that answers from the configuration
\* it last accepted, the second invocation issues no create and no update and
\* reports changed = false.
C1_Idempotent ==
    \A p \in Procs :
        (run[p] >= 2 /\ Ended(p) /\ Faithful(p)) =>
            /\ Succeeded(p)
            /\ out[p].changed = FALSE
            /\ Mutating(p) = {}

\* C2: create path. When the first describe answers not-found because there is
\* no such domain (and the calls that follow succeed) the invocation issues exactly one create carrying name,
\* engine version, encryption options, cluster config, storage config, snapshot
\* hour and the serialized unpatched policy of the spec, issues no update, and
\* ends successfully with changed = true.
C2_CreatePath ==
    \A p \in Procs :
        (Ended(p) /\ NotFoundPath(p) /\ Faithful(p) /\ RestSucceeded(p)) =>
            /\ Cardinality(Ops(p, "create")) = 1
            /\ Ops(p, "update") = {}
            /\ \A i \in Ops(p, "create") :
                  LET req == calls[p][i].req
                  IN  /\ req.DomainName = params[p].name
                      /\ req.ElasticsearchVersion = params[p].elasticsearch_version
                      /\ req.EncryptionAtRestOptions = EncryptionAtRestOptions(params[p])
                      /\ req.ElasticsearchClusterConfig = ClusterConfig(params[p])
                      /\ req.EBSOptions = EbsOptions(params[p])
                      /\ req.SnapshotOptions = SnapshotOptions(params[p])
                      /\ req.AccessPolicies = JsonDumps(params[p].access_policies)
            /\ Succeeded(p)
            /\ out[p].changed = TRUE

\* C3: no-diff detection. On the found path, when the observed cluster config,
\* storage config, network config, snapshot hour and parsed policy are those
\* desired (the policy after ARN patching), the invocation issues no update and
\* no create, leaves the stored configuration as it was, and reports
\* changed = false.
C3_NoDiff ==
    \A p \in Procs :
        (Ended(p) /\ FoundPath(p) /\ ~FieldDiff(p) /\ SameNetwork(p) /\ Faithful(p)) =>
            /\ Mutating(p) = {}
            /\ domain = ObservedStatus(p)
            /\ Succeeded(p)
            /\ out[p].changed = FALSE

\* C4: at most one mutating call. Whatever the provider answers, an invocation
\* issues at most one create or update call in total.
C4_AtMostOneMutation ==
    \A p \in Procs : Cardinality(Mutating(p)) <= 1

\* C5: a diff triggers an update. On the found path, when cluster config,
\* storage config, snapshot hour or parsed policy differs from the observed
\* state (and the calls that follow succeed), the invocation issues exactly one
\* update for the name, carrying the desired cluster config, storage config,
\* snapshot config and the serialized patched policy, and reports
\* changed = true.
C5_DiffTriggersUpdate ==
    \A p \in Procs :
        (Ended(p) /\ FoundPath(p) /\ FieldDiff(p) /\ Faithful(p) /\ RestSucceeded(p)) =>
            /\ Cardinality(Ops(p, "update")) = 1
            /\ \A i \in Ops(p, "update") :
                  LET req == calls[p][i].req
                  IN  /\ req.DomainName = params[p].name
                      /\ req.ElasticsearchClusterConfig = ClusterConfig(params[p])
                      /\ req.EBSOptions = EbsOptions(params[p])
                      /\ req.SnapshotOptions = SnapshotOptions(params[p])
                      /\ req.AccessPolicies = JsonDumps(PatchedDesired(p))
            /\ Succeeded(p)
            /\ out[p].changed = TRUE

\* C6: the response is fresh server state. An invocation that issued a create
\* or an update and ends successfully has issued exactly one describe after
\* that call, it is its last call, and the reported response is the payload of
\* that describe.
C6_FreshResponse ==
    \A p \in Procs :
        (Succeeded(p) /\ Mutating(p) # {}) =>
            \A m \in Mutating(p) :
                /\ Cardinality({i \in Ops(p, "describe") : i > m}) = 1
                /\ calls[p][Len(calls[p])].op = "describe"
                /\ calls[p][Len(calls[p])].res.ok
                /\ out[p].response = calls[p][Len(calls[p])].res.body

\* C6 witness: a successful invocation that created or updated the domain.
C6_Witness ==
    \E p \in Procs : Succeeded(p) /\ Mutating(p) # {}

\* C7: a describe error is terminal. When the first describe fails with a code
\* other than not-found, no further client call is ever issued, and once the
\* handler has run the invocation has failed with a message holding the
\* provider's code and message, and the caller sees no changed = true.
C7_DescribeErrorTerminal ==
    \A p \in Procs :
        DescribeFailed(p) =>
            /\ Len(calls[p]) = 1
            /\ pc[p] \in {"except", "done"}
            /\ Ended(p) =>
                  /\ out[p].kind = "fail_json"
                  /\ out[p].msg = <<"Error:", calls[p][1].res.Error.Code,
                                    calls[p][1].res.Error.Message>>
                  /\ ReportedChanged(out[p]) = FALSE

\* C7 witness: an invocation that ended after its first describe failed with
\* another code than not-found.
C7_Witness ==
    \E p \in Procs : DescribeFailed(p) /\ Ended(p) /\ out[p].kind = "fail_json"

\* C8: a create or update error is fatal. When a create or an update call
\* fails, it is the last client call of the invocation, and the invocation
\* ends as a failure carrying the provider's code and message, never as a
\* success.
C8_MutationErrorFatal ==
    \A p \in Procs :
        \A m \in Mutating(p) :
            ~calls[p][m].res.ok =>
                /\ Len(calls[p]) = m
                /\ Ended(p) =>
                      \/ /\ out[p].kind = "fail_json"
                         /\ out[p].msg = <<"Error:", calls[p][m].res.Error.Code,
                                           calls[p][m].res.Error.Message>>
                      \/ /\ out[p].kind = "exception"
                         /\ out[p].exception =
                               [type |-> "ClientError", Error |-> calls[p][m].res.Error]

\* C9: the network config is optional in requests. On the not-found path and
\* on the diff path (the calls that follow succeeding), a create or update
\* request is issued, without a network config when the spec supplies neither
\* subnet ids nor security-group ids, and with the supplied lists otherwise.
C9_NetworkOptional ==
    \A p \in Procs :
        (/\ Ended(p)
         /\ Faithful(p)
         /\ RestSucceeded(p)
         /\ NotFoundPath(p) \/ (FoundPath(p) /\ FieldDiff(p) /\ SameNetwork(p))) =>
            /\ Mutating(p) # {}
            /\ \A m \in Mutating(p) : NetworkAsSupplied(calls[p][m].req, params[p])

\* C10: network diff against an observed network placement. On the found path,
\* when the observed state has a network placement and its subnet ids or its
\* security-group ids are not the desired sequence (an option not supplied
\* counting as the empty sequence), the invocation issues an update and
\* reports changed = true; when both sequences are the desired ones and no
\* other field differs, it issues no update and reports changed = false.
C10_NetworkDiff ==
    \A p \in Procs :
        (/\ Ended(p)
         /\ FoundPath(p)
         /\ "VPCOptions" \in DOMAIN ObservedStatus(p)
         /\ Faithful(p)
         /\ RestSucceeded(p)) =>
            IF \/ ObservedIds(ObservedStatus(p), "SubnetIds") # DesiredSubnets(params[p])
               \/ ObservedIds(ObservedStatus(p), "SecurityGroupIds")
                     # DesiredGroups(params[p])
               THEN /\ Ops(p, "update") # {}
                    /\ Succeeded(p)
                    /\ out[p].changed = TRUE
               ELSE ~FieldDiff(p) =>
                       /\ Mutating(p) = {}
                       /\ Succeeded(p)
                       /\ out[p].changed = FALSE

\* the observed policy holds '<arn>/*' where the desired policy lacks Resource
\* and is the desired policy otherwise
ObservedIsPatched(p) ==
    /\ LacksResource(params[p].access_policies)
    /\ JsonLoads(ObservedStatus(p).AccessPolicies) = PatchedDesired(p)

\* C11: policy ARN patching. On the found path, a desired policy with
\* statements lacking Resource equals an observed policy holding '<arn>/*' in
\* those statements, and when no other field differs the invocation reports
\* changed = false and issues no update; a statement with an explicit Resource
\* is not altered by the patching; an update carries the serialized patched
\* document.
C11_PolicyPatching ==
    \A p \in Procs :
        /\ (Ended(p) /\ FoundPath(p) /\ Faithful(p) /\ ObservedIsPatched(p)
              /\ ~FieldDiff(p) /\ SameNetwork(p)) =>
                /\ Mutating(p) = {}
                /\ Succeeded(p)
                /\ out[p].changed = FALSE
        /\ (FoundPath(p) /\ pc[p] # "compare") =>
                \A i \in 1..Len(params[p].access_policies.Statement) :
                    "Resource" \in DOMAIN params[p].access_policies.Statement[i] =>
                        policy_dict[p].Statement[i] = params[p].access_policies.Statement[i]
        /\ \A i \in Ops(p, "update") :
                calls[p][i].req.AccessPolicies = JsonDumps(PatchedDesired(p))

\* the conditional keys of a cluster config cc and a storage config eb are
\* present exactly when their flag in P is true
ConditionalKeys(cc, eb, P) ==
    /\ ("DedicatedMasterType" \in DOMAIN cc) <=> P.dedicated_master
    /\ ("DedicatedMasterCount" \in DOMAIN cc) <=> P.dedicated_master
    /\ ("ZoneAwarenessConfig" \in DOMAIN cc) <=> P.zone_awareness
    /\ ("VolumeType" \in DOMAIN eb) <=> P.ebs
    /\ ("VolumeSize" \in DOMAIN eb) <=> P.ebs

\* the caller passed values for conditional fields whose flag is false
StrayValues(P) ==
    \/ ~P.dedicated_master /\ P.dedicated_master_instance_type # "None"
    \/ ~P.ebs /\ P.volume_type # "None"

\* C12: conditional-field omission. In every create and update request (issued
\* or being built) and in the baseline the observed state is compared with,
\* the dedicated-master type and count keys are present iff dedicated_master
\* is true, the volume type and size keys iff ebs is true, and the
\* zone-awareness config iff zone_awareness is true, whatever values were
\* passed for them. The baseline shows in the comparison: an observed state
\* found equal has exactly those keys.
C12_ConditionalFields ==
    \A p \in Procs :
        /\ \A m \in Mutating(p) :
              ConditionalKeys(calls[p][m].req.ElasticsearchClusterConfig,
                              calls[p][m].req.EBSOptions, params[p])
        /\ keyword_args[p] # Unset =>
              ConditionalKeys(keyword_args[p].ElasticsearchClusterConfig,
                              keyword_args[p].EBSOptions, params[p])
        /\ (FoundPath(p) /\ pc[p] # "compare" /\ Len(calls[p]) = 1 /\ ~changed[p]) =>
              ConditionalKeys(ObservedStatus(p).ElasticsearchClusterConfig,
                              ObservedStatus(p).EBSOptions, params[p])

\* C12 witness: a request was accepted for a spec that passes stray values for
\* conditional fields whose flag is false.
C12_Witness ==
    \E p \in Procs :
        /\ StrayValues(params[p])
        /\ \E m \in Mutating(p) : calls[p][m].res.ok
        /\ Succeeded(p)

\* what an invocation with spec N does on the found path against status when
\* the provider answers faithfully: the update requests it issues and the
\* changed value it reports ("none" when it dies with a traceback)
FoundOutcome(status, N) ==
    LET v       == VpcOptions(N)
        patched == PatchPolicy(N.access_policies, status.ARN)
        net     == NetworkDiff(status, v)
        diff    == EarlyDiff(status, N) \/ net.diff \/ LateDiff(status, N, patched)
        crash   == net.raised \/ (diff /\ VpcOptionsGiven(v) = KeyError)
    IN  [updates |-> IF ~crash /\ diff
                        THEN {WithVpcOptions(UpdateArgs(N, JsonDumps(patched)), v)}
                        ELSE {},
         changed |-> IF crash THEN "none" ELSE IF diff THEN "true" ELSE "false"]

\* what the invocation of process p did: the update requests issued and the
\* changed value reported
Outcome(p) ==
    [updates |-> {calls[p][i].req : i \in Ops(p, "update")},
     changed |-> IF ~Succeeded(p) THEN "none"
                 ELSE IF out[p].changed THEN "true" ELSE "false"]

\* P with the encryption options of the base spec
WithoutEncryption(P) == BaseEncryption @@ P

\* C13: encryption is create-only. Every create request carries the
\* encryption-at-rest options of the spec, no update request carries any, and
\* on the found path they are not compared: against a faithful provider the
\* invocation reports the changed value and issues the update request (or
\* none) that the same spec with other encryption options reports and issues
\* against the same domain.
C13_EncryptionCreateOnly ==
    \A p \in Procs :
        /\ \A i \in Ops(p, "create") :
              /\ "EncryptionAtRestOptions" \in DOMAIN calls[p][i].req
              /\ calls[p][i].req.EncryptionAtRestOptions
                    = EncryptionAtRestOptions(params[p])
        /\ \A i \in Ops(p, "update") :
              "EncryptionAtRestOptions" \notin DOMAIN calls[p][i].req
        /\ (Ended(p) /\ FoundPath(p) /\ Faithful(p)) =>
              Outcome(p) = FoundOutcome(ObservedStatus(p), WithoutEncryption(params[p]))

\* C13 witness: a successful update by a spec whose encryption options (enabled,
\* with a key id) are not those of the existing domain.
C13_Witness ==
    \E p \in Procs :
        /\ Succeeded(p) /\ FoundPath(p) /\ Faithful(p)
        /\ params[p].encryption_at_rest_enabled = "True"
        /\ ObservedStatus(p).EncryptionAtRestOptions # EncryptionAtRestOptions(params[p])
        /\ Ops(p, "update") # {}

\* the first describe returned a domain without network placement, and the
\* spec supplies subnet ids and/or security-group ids
NetworkGap(p) ==
    /\ FoundPath(p)
    /\ "VPCOptions" \notin DOMAIN ObservedStatus(p)
    /\ DesiredNetwork(params[p]) # EmptyDict

\* an invocation recorded in the log reported changed = false and issued no
\* create and no update
Quiet(entry) ==
    /\ entry.out.changed = FALSE
    /\ \A i \in 1..Len(entry.calls) : entry.calls[i].op = "describe"

\* C14: network gap. On the found path, when the observed domain has no
\* network placement and the spec supplies subnet ids and/or security-group
\* ids, the network config is not compared: if no other compared field differs
\* the invocation sets no changed and issues no create and no update, ends
\* with changed = false against a faithful provider, and so did every earlier
\* invocation of the same spec; the domain still has no network placement.
C14_NetworkGap ==
    \A p \in Procs :
        (NetworkGap(p) /\ ~FieldDiff(p) /\ pc[p] # "compare") =>
            /\ Mutating(p) = {}
            /\ ~changed[p]
            /\ (Ended(p) /\ Faithful(p)) =>
                  /\ Succeeded(p)
                  /\ out[p].changed = FALSE
                  /\ domain = ObservedStatus(p)
                  /\ "VPCOptions" \notin DOMAIN domain
                  /\ \A k \in 1..Len(log[p]) : Quiet(log[p][k])

\* C14 witness: the second of two invocations ended with changed = false
\* although the spec supplies a network placement the domain does not have.
C14_Witness ==
    \E p \in Procs :
        /\ run[p] = 2 /\ Len(log[p]) = 1
        /\ NetworkGap(p) /\ ~FieldDiff(p)
        /\ Succeeded(p) /\ Faithful(p)
        /\ out[p].changed = FALSE

\* the stored domain d holds the configuration of spec P: the compared fields
\* and the network config are those the requests of P carry, the policy as
\* sent or with Resource filled in
StoredMatches(d, P) ==
    /\ d.ElasticsearchClusterConfig = ClusterConfig(P)
    /\ d.EBSOptions = EbsOptions(P)
    /\ d.SnapshotOptions = SnapshotOptions(P)
    /\ JsonLoads(d.AccessPolicies)
          \in {P.access_policies, PatchPolicy(P.access_policies, d.ARN)}
    /\ NetworkAsSupplied(d, P)

\* process p issued a create or an update that the provider accepted
AcceptedMutation(p) == \E m \in Mutating(p) : calls[p][m].res.ok

C16_PolicyCheckedFirst ==
    \A p \in Procs :
        ~JsonSerializable(params[p].access_policies) =>
            /\ calls[p] = <<>>
            /\ pc[p] \in {"idle", "build", "done"}
            /\ Ended(p) =>
                  /\ out[p].kind = "fail_json"
                  /\ out[p].msg[1] = "Failed to convert the policy into valid JSON:"
                  /\ out[p].msg[1] # "Error:"

\* C16 witness: an invocation with an unserializable policy has ended in
\* fail_json.
C16_Witness ==
    \E p \in Procs :
        /\ ~JsonSerializable(params[p].access_policies)
        /\ Ended(p)
        /\ out[p].kind = "fail_json"
        /\ calls[p] = <<>>

\* the shape of the call trace of process p, but for its length: a describe
\* comes first, no create or update precedes it, there are at most two
\* describes, the second one follows every create and update, and nothing
\* follows it
TraceShape(p) ==
    /\ calls[p] # <<>> => calls[p][1].op = "describe"
    /\ \A m \in Mutating(p) : m > 1 /\ calls[p][1].op = "describe"
    /\ Cardinality(Ops(p, "describe")) <= 2
    /\ \A i \in Ops(p, "describe") :
          i > 1 => /\ \A m \in Mutating(p) : m < i
                   /\ i = Len(calls[p])
                   /\ pc[p] = "done"

\* C17: call-trace shape. In every invocation, whatever the provider answers,
\* the first client call is a describe, no create or update is issued before
\* it returned, at most two describes are issued, a second describe comes
\* after the mutating call, no call follows the final describe, and the
\* invocation issues at most three client calls.
C17_CallTraceShape ==
    \A p \in Procs : TraceShape(p) /\ Len(calls[p]) <= 3

\* C18: the reported changed matches what was done. An invocation that ends
\* successfully reports changed = true if and only if it issued a create or an
\* update that the provider accepted: with no mutating call it reports false,
\* with an accepted one true.
C18_ChangedMatchesActions ==
    \A p \in Procs :
        /\ Succeeded(p) =>
              /\ out[p].changed <=> AcceptedMutation(p)
              /\ Mutating(p) = {} => out[p].changed = FALSE
              /\ AcceptedMutation(p) => out[p].changed = TRUE
        /\ \A k \in 1..Len(log[p]) :
              log[p][k].out.changed <=>
                 \E i \in 1..Len(log[p][k].calls) :
                    /\ log[p][k].calls[i].op \in {"create", "update"}
                    /\ log[p][k].calls[i].res.ok

\* C18 witness: an invocation that reported changed = true after an accepted
\* create or update was followed by one that issued none and reported
\* changed = false.
C18_Witness ==
    \E p \in Procs :
        /\ Len(log[p]) = 1
        /\ log[p][1].out.changed = TRUE
        /\ Succeeded(p)
        /\ Mutating(p) = {}
        /\ out[p].changed = FALSE

\* P with the engine version of the base spec
WithoutVersion(P) == BaseVersion @@ P

\* C19: the engine version is create-only. Every create request carries the
\* engine version of the spec, no update request carries one, and on the found
\* path it is not compared: against a faithful provider the invocation reports
\* the changed value and issues the update request (or none) that the same
\* spec with another engine version does against the same domain; and a spec
\* that differs from the existing domain only in the engine version issues no
\* create and no update and reports changed = false.
C19_VersionCreateOnly ==
    \A p \in Procs :
        /\ \A i \in Ops(p, "create") :
              /\ "ElasticsearchVersion" \in DOMAIN calls[p][i].req
              /\ calls[p][i].req.ElasticsearchVersion = params[p].elasticsearch_version
        /\ \A i \in Ops(p, "update") :
              "ElasticsearchVersion" \notin DOMAIN calls[p][i].req
        /\ (Ended(p) /\ FoundPath(p) /\ Faithful(p)) =>
              Outcome(p) = FoundOutcome(ObservedStatus(p), WithoutVersion(params[p]))
        /\ (/\ Ended(p) /\ FoundPath(p) /\ Faithful(p)
            /\ ObservedStatus(p).ElasticsearchVersion # params[p].elasticsearch_version
            /\ ~FieldDiff(p) /\ SameNetwork(p)) =>
              /\ Mutating(p) = {}
              /\ Succeeded(p)
              /\ out[p].changed = FALSE

====
